---- MODULE Spec2Model ----
(***************************************************************************)
(* Brian's Brain video generator (src/main.cpp).                           *)
(*                                                                         *)
(* The model follows main() from the end of argp_parse to the return, and  *)
(* brain() statement by statement.  brain() declares j, k, l and tot       *)
(* outside its "#pragma omp parallel for", so only the row index i is      *)
(* private to a thread of the team: j, k, l and tot are one storage        *)
(* location each, read and written by every thread.  Every evaluation of   *)
(* a condition and every assignment is one step of one thread.             *)
(***************************************************************************)
EXTENDS Integers, Sequences, FiniteSets, TLC

\* ------------------------------------------------------------------ bounds
\* largest frame count explored (args.frames ranges over -1..MaxFrames)
MaxFrames == 2
\* largest team size the OpenMP runtime may give the parallel region
MaxThreads == 2
\* grids with more cells than this are explored with a team of one thread
MaxParallelCells == 2

\* grid sizes <<rows, columns>> explored by the whole-program specification
Dims == {<<2, 1>>, <<3, 3>>}
\* largest number of rows and of columns explored for the seeding loop
MaxSeedDim == 6
\* largest number of options on the command line explored
MaxOpts == 2
\* grid sizes <<rows, columns>> explored for brain() on its own
BrainDims == {<<1, 2>>, <<2, 1>>, <<2, 2>>}

\* ------------------------------------------------------------- cell values
ON == <<255, 255, 255>>
DYING == <<255, 0, 0>>
OFF == <<0, 0, 0>>
\* a cv::Vec3b that is none of the three colours (what fresh memory may hold)
JUNK == <<0, 255, 0>>
Vec3b == {ON, DYING, OFF, JUNK}

VARIABLES
  args,       \* the configuration: [frames, columns, rows]
  nthreads,   \* team size of the parallel region
  prev, curr, \* the two cv::Mat buffers, by linear cell index
  size,       \* main's size
  main_i,     \* main's i
  main_j,     \* main's j
  pc,         \* main's position
  video,      \* the frames written to the sink, in order
  emitGen,    \* for each written frame, the number of brain() calls before it
  transitions,\* number of completed brain() calls
  brain_i,    \* brain's i, private to each thread
  brain_j,    \* brain's j, shared by the team
  brain_k,    \* brain's k, shared by the team
  brain_l,    \* brain's l, shared by the team
  brain_tot,  \* brain's tot, shared by the team
  wpc,        \* each thread's position in brain
  written,    \* per thread, the linear indices of `out` it assigned in this call
  oob,        \* TRUE once brain used a coordinate outside the grid
  prevData,   \* the allocation prev's header points to (0: none)
  currData,   \* the allocation curr's header points to (0: none)
  seeded,     \* the coordinates assigned by the seeding loop
  argv,       \* the options argp_parse has still to hand to parse_opt
  errno,      \* the C library's errno
  parsed      \* the parse_opt calls made: option, args before it, failure message

vars == <<args, nthreads, prev, curr, size, main_i, main_j, pc, video, emitGen,
          transitions, brain_i, brain_j, brain_k, brain_l, brain_tot, wpc,
          written, oob, prevData, currData, seeded, argv, errno, parsed>>

\* the variables only argument parsing changes
parseVars == <<argv, errno, parsed>>

\* the variables only allocation and copyTo change
storageVars == <<prevData, currData>>

driverVars == <<size, main_i, main_j, pc, video, emitGen, transitions>>

\* -------------------------------------------------------------- cv::Mat
Cells(rows, cols) == 0 .. (rows * cols - 1)

\* cv::Mat::at<cv::Vec3b>(r, c) addresses data + r*step + c*3 with no check:
\* the linear index of a coordinate, inside the grid or not
Idx(r, c) == r * args.columns + c

InGrid(r, c) == r >= 0 /\ r < args.rows /\ c >= 0 /\ c < args.columns

InBuffer(n) == n >= 0 /\ n < args.rows * args.columns

\* the values a read of in.at(r, c) can give: the cell, or anything at all
\* when the address is outside the buffer
AtValues(M, r, c) == IF InBuffer(Idx(r, c)) THEN {M[Idx(r, c)]} ELSE Vec3b

\* the buffer after out.at(r, c) = v (a store outside the buffer leaves the
\* buffer as it was)
AtPut(M, r, c, v) ==
  IF InBuffer(Idx(r, c)) THEN [M EXCEPT ![Idx(r, c)] = v] ELSE M

\* C integer division truncates toward zero
CDiv(a, b) == IF a >= 0 THEN a \div b ELSE -((-a) \div b)

Min(a, b) == IF a < b THEN a ELSE b

\* the seeding side rounded up instead of truncated
SeedSizeCeil(rows, cols) == (Min(rows, cols) * 4 + 9) \div 10

\* size = std::min(rows, columns) * DEFAULT_SEED_AREA, converted to int
SeedSize(rows, cols) == (Min(rows, cols) * 4) \div 10

\* ------------------------------------------------- the parallel-for team
\* team sizes explored for a grid
TeamSizes(rows, cols) ==
  IF rows * cols <= MaxParallelCells THEN 1 .. MaxThreads ELSE {1}

Threads == 0 .. (nthreads - 1)

\* static schedule of the rows 0..n-1 over the team: thread t runs the rows
\* ChunkLo(t, n) .. ChunkHi(t, n) - 1
ChunkLo(t, n) ==
  LET q == n \div nthreads
      r == n % nthreads
  IN IF t < r THEN t * (q + 1) ELSE t * q + r

ChunkHi(t, n) ==
  LET q == n \div nthreads
      r == n % nthreads
  IN ChunkLo(t, n) + (IF t < r THEN q + 1 ELSE q)

\* prev after a store through curr that leaves curr as newCurr: the two
\* headers show the same cells when they point to the same allocation
PrevAfterStore(newCurr) == IF prevData = currData THEN newCurr ELSE prev

\* ------------------------------------------------------------------ brain
\* brain(prev, curr): `in` is prev, `out` is curr (line 165)

Goto(t, where) == wpc' = [wpc EXCEPT ![t] = where]

\* what a step of brain leaves alone besides the variables it names
BrainFrame ==
  UNCHANGED <<args, parseVars, storageVars, seeded, nthreads, driverVars, brain_i>>

\* line 187-188: the team starts; each thread takes its chunk of the rows
BrainFork ==
  /\ pc = "advance"
  /\ pc' = "brain"
  /\ brain_i' = [t \in Threads |-> ChunkLo(t, args.rows)]
  /\ wpc' = [t \in Threads |->
              IF ChunkLo(t, args.rows) < ChunkHi(t, args.rows)
              THEN "j_init" ELSE "done"]
  /\ written' = [t \in Threads |-> {}]
  /\ UNCHANGED <<args, parseVars, storageVars, seeded, nthreads, prev, curr,
                 size, main_i, main_j, video,
                 emitGen, transitions, brain_j, brain_k, brain_l, brain_tot, oob>>

\* line 189: j = 0
JInit(t) ==
  /\ pc = "brain" /\ wpc[t] = "j_init"
  /\ brain_j' = 0
  /\ Goto(t, "j_test")
  /\ BrainFrame
  /\ UNCHANGED <<prev, curr, brain_k, brain_l, brain_tot, written, oob>>

\* line 189: j < in.cols
JTest(t) ==
  /\ pc = "brain" /\ wpc[t] = "j_test"
  /\ Goto(t, IF brain_j < args.columns THEN "if_on" ELSE "i_inc")
  /\ BrainFrame
  /\ UNCHANGED <<prev, curr, brain_j, brain_k, brain_l, brain_tot, written, oob>>

\* line 190: if (in.at(i, j) == ON)
IfOn(t) ==
  /\ pc = "brain" /\ wpc[t] = "if_on"
  /\ \E v \in AtValues(prev, brain_i[t], brain_j) :
       Goto(t, IF v = ON THEN "set_dying" ELSE "if_dying")
  /\ oob' = (oob \/ ~InGrid(brain_i[t], brain_j))
  /\ BrainFrame
  /\ UNCHANGED <<prev, curr, brain_j, brain_k, brain_l, brain_tot, written>>

\* line 191: out.at(i, j) = DYING
SetDying(t) ==
  /\ pc = "brain" /\ wpc[t] = "set_dying"
  /\ curr' = AtPut(curr, brain_i[t], brain_j, DYING)
  /\ prev' = PrevAfterStore(curr')
  /\ written' = [written EXCEPT ![t] = @ \cup {Idx(brain_i[t], brain_j)}]
  /\ oob' = (oob \/ ~InGrid(brain_i[t], brain_j))
  /\ Goto(t, "j_inc")
  /\ BrainFrame
  /\ UNCHANGED <<brain_j, brain_k, brain_l, brain_tot>>

\* line 192: else if (in.at(i, j) == DYING)
IfDying(t) ==
  /\ pc = "brain" /\ wpc[t] = "if_dying"
  /\ \E v \in AtValues(prev, brain_i[t], brain_j) :
       Goto(t, IF v = DYING THEN "set_off" ELSE "tot_init")
  /\ oob' = (oob \/ ~InGrid(brain_i[t], brain_j))
  /\ BrainFrame
  /\ UNCHANGED <<prev, curr, brain_j, brain_k, brain_l, brain_tot, written>>

\* line 193: out.at(i, j) = OFF
SetOff(t) ==
  /\ pc = "brain" /\ wpc[t] = "set_off"
  /\ curr' = AtPut(curr, brain_i[t], brain_j, OFF)
  /\ prev' = PrevAfterStore(curr')
  /\ written' = [written EXCEPT ![t] = @ \cup {Idx(brain_i[t], brain_j)}]
  /\ oob' = (oob \/ ~InGrid(brain_i[t], brain_j))
  /\ Goto(t, "j_inc")
  /\ BrainFrame
  /\ UNCHANGED <<brain_j, brain_k, brain_l, brain_tot>>

\* line 196: tot = 0
TotInit(t) ==
  /\ pc = "brain" /\ wpc[t] = "tot_init"
  /\ brain_tot' = 0
  /\ Goto(t, "k_init")
  /\ BrainFrame
  /\ UNCHANGED <<prev, curr, brain_j, brain_k, brain_l, written, oob>>

\* line 196: k = -1
KInit(t) ==
  /\ pc = "brain" /\ wpc[t] = "k_init"
  /\ brain_k' = -1
  /\ Goto(t, "k_test")
  /\ BrainFrame
  /\ UNCHANGED <<prev, curr, brain_j, brain_l, brain_tot, written, oob>>

\* line 196: k < 2
KTest(t) ==
  /\ pc = "brain" /\ wpc[t] = "k_test"
  /\ Goto(t, IF brain_k < 2 THEN "row_chk" ELSE "set_rule")
  /\ BrainFrame
  /\ UNCHANGED <<prev, curr, brain_j, brain_k, brain_l, brain_tot, written, oob>>

\* line 197: if (i + k >= 0 && i + k < in.rows)
RowChk(t) ==
  /\ pc = "brain" /\ wpc[t] = "row_chk"
  /\ Goto(t, IF brain_i[t] + brain_k >= 0 /\ brain_i[t] + brain_k < args.rows
              THEN "l_init" ELSE "k_inc")
  /\ BrainFrame
  /\ UNCHANGED <<prev, curr, brain_j, brain_k, brain_l, brain_tot, written, oob>>

\* line 198: l = -1
LInit(t) ==
  /\ pc = "brain" /\ wpc[t] = "l_init"
  /\ brain_l' = -1
  /\ Goto(t, "l_test")
  /\ BrainFrame
  /\ UNCHANGED <<prev, curr, brain_j, brain_k, brain_tot, written, oob>>

\* line 198: l < 2
LTest(t) ==
  /\ pc = "brain" /\ wpc[t] = "l_test"
  /\ Goto(t, IF brain_l < 2 THEN "col_chk" ELSE "k_inc")
  /\ BrainFrame
  /\ UNCHANGED <<prev, curr, brain_j, brain_k, brain_l, brain_tot, written, oob>>

\* line 199: if (j + l >= 0 && j + l < in.cols)
ColChk(t) ==
  /\ pc = "brain" /\ wpc[t] = "col_chk"
  /\ Goto(t, IF brain_j + brain_l >= 0 /\ brain_j + brain_l < args.columns
              THEN "nb_on" ELSE "l_inc")
  /\ BrainFrame
  /\ UNCHANGED <<prev, curr, brain_j, brain_k, brain_l, brain_tot, written, oob>>

\* line 200: if (in.at(i + k, j + l) == ON)
NbOn(t) ==
  /\ pc = "brain" /\ wpc[t] = "nb_on"
  /\ \E v \in AtValues(prev, brain_i[t] + brain_k, brain_j + brain_l) :
       Goto(t, IF v = ON THEN "tot_inc" ELSE "l_inc")
  /\ oob' = (oob \/ ~InGrid(brain_i[t] + brain_k, brain_j + brain_l))
  /\ BrainFrame
  /\ UNCHANGED <<prev, curr, brain_j, brain_k, brain_l, brain_tot, written>>

\* line 201: tot += 1
TotInc(t) ==
  /\ pc = "brain" /\ wpc[t] = "tot_inc"
  /\ brain_tot' = brain_tot + 1
  /\ Goto(t, "l_inc")
  /\ BrainFrame
  /\ UNCHANGED <<prev, curr, brain_j, brain_k, brain_l, written, oob>>

\* line 198: l += 1
LInc(t) ==
  /\ pc = "brain" /\ wpc[t] = "l_inc"
  /\ brain_l' = brain_l + 1
  /\ Goto(t, "l_test")
  /\ BrainFrame
  /\ UNCHANGED <<prev, curr, brain_j, brain_k, brain_tot, written, oob>>

\* line 196: k += 1
KInc(t) ==
  /\ pc = "brain" /\ wpc[t] = "k_inc"
  /\ brain_k' = brain_k + 1
  /\ Goto(t, "k_test")
  /\ BrainFrame
  /\ UNCHANGED <<prev, curr, brain_j, brain_l, brain_tot, written, oob>>

\* line 204: the value of (tot == 2) ? ON : OFF
Rule(tot) == IF tot = 2 THEN ON ELSE OFF

\* line 204: out.at(i, j) = (tot == 2) ? ON : OFF
SetRule(t) ==
  /\ pc = "brain" /\ wpc[t] = "set_rule"
  /\ curr' = AtPut(curr, brain_i[t], brain_j, Rule(brain_tot))
  /\ prev' = PrevAfterStore(curr')
  /\ written' = [written EXCEPT ![t] = @ \cup {Idx(brain_i[t], brain_j)}]
  /\ oob' = (oob \/ ~InGrid(brain_i[t], brain_j))
  /\ Goto(t, "j_inc")
  /\ BrainFrame
  /\ UNCHANGED <<brain_j, brain_k, brain_l, brain_tot>>

\* line 189: j += 1
JInc(t) ==
  /\ pc = "brain" /\ wpc[t] = "j_inc"
  /\ brain_j' = brain_j + 1
  /\ Goto(t, "j_test")
  /\ BrainFrame
  /\ UNCHANGED <<prev, curr, brain_k, brain_l, brain_tot, written, oob>>

\* line 188: i += 1; i < (end of this thread's chunk)
IInc(t) ==
  /\ pc = "brain" /\ wpc[t] = "i_inc"
  /\ brain_i' = [brain_i EXCEPT ![t] = brain_i[t] + 1]
  /\ Goto(t, IF brain_i[t] + 1 < ChunkHi(t, args.rows) THEN "j_init" ELSE "done")
  /\ UNCHANGED <<args, parseVars, storageVars, seeded, nthreads, prev,
                 driverVars>>
  /\ UNCHANGED <<curr, brain_j, brain_k, brain_l, brain_tot, written, oob>>

\* line 206: the implicit barrier at the end of the parallel region, and return
\* a barrier that waits for MaxThreads threads, whatever the team's size
TeamDoneOfMax ==
  \A t \in 0 .. MaxThreads - 1 : t \in Threads /\ wpc[t] = "done"

\* line 206: the implicit barrier at the end of the parallel loop: every
\* thread of the team has finished its rows
TeamDone == \A t \in Threads : wpc[t] = "done"

BrainJoin ==
  /\ pc = "brain"
  /\ TeamDone
  /\ pc' = "incr"
  /\ transitions' = transitions + 1
  /\ UNCHANGED <<args, parseVars, storageVars, seeded, nthreads, prev, curr,
                 size, main_i, main_j, video,
                 emitGen, brain_i, brain_j, brain_k, brain_l, brain_tot, wpc,
                 written, oob>>

\* one step of one thread of the team
BrainStep ==
  \/ \E t \in Threads : JInit(t)
  \/ \E t \in Threads : JTest(t)
  \/ \E t \in Threads : IfOn(t)
  \/ \E t \in Threads : SetDying(t)
  \/ \E t \in Threads : IfDying(t)
  \/ \E t \in Threads : SetOff(t)
  \/ \E t \in Threads : TotInit(t)
  \/ \E t \in Threads : KInit(t)
  \/ \E t \in Threads : KTest(t)
  \/ \E t \in Threads : RowChk(t)
  \/ \E t \in Threads : LInit(t)
  \/ \E t \in Threads : LTest(t)
  \/ \E t \in Threads : ColChk(t)
  \/ \E t \in Threads : NbOn(t)
  \/ \E t \in Threads : TotInc(t)
  \/ \E t \in Threads : LInc(t)
  \/ \E t \in Threads : KInc(t)
  \/ \E t \in Threads : SetRule(t)
  \/ \E t \in Threads : JInc(t)
  \/ \E t \in Threads : IInc(t)

\* --------------------------------------------- brain on its own, any input
BrainInit ==
  /\ \E d \in BrainDims : args = [frames |-> 1, rows |-> d[1], columns |-> d[2]]
  /\ nthreads \in TeamSizes(args.rows, args.columns)
  /\ prev \in [Cells(args.rows, args.columns) -> {ON, DYING, OFF}]
  /\ \E v \in {OFF, ON} : curr = [n \in Cells(args.rows, args.columns) |-> v]
  /\ size = 0 /\ main_i = 0 /\ main_j = 0
  /\ pc = "advance"
  /\ video = <<>> /\ emitGen = <<>> /\ transitions = 0
  /\ brain_i = [t \in Threads |-> 0]
  /\ wpc = [t \in Threads |-> "done"]
  /\ brain_j = 0 /\ brain_k = 0 /\ brain_l = 0 /\ brain_tot = 0
  /\ written = [t \in Threads |-> {}]
  /\ oob = FALSE
  /\ prevData = 1 /\ currData = 2
  /\ seeded = {}
  /\ argv = <<>> /\ errno = "NONE" /\ parsed = <<>>

BrainNext == BrainFork \/ BrainStep \/ BrainJoin

SpecBrain == BrainInit /\ [][BrainNext]_vars

\* ------------------------------------------------------------------- main
\* what a step of main leaves alone besides the variables it names
MainFrame ==
  UNCHANGED <<args, parseVars, nthreads, transitions, brain_i, brain_j, brain_k,
              brain_l, brain_tot, wpc, written, oob>>

\* cv::Mat(rows, columns, CV_8UC3) allocates and does not initialise.  The
\* contents explored alternate two values a and b over the cells
Fresh(rows, cols, a, b) ==
  [n \in Cells(rows, cols) |-> IF n % 2 = 0 THEN a ELSE b]

\* the configurations left by argp_parse (line 134) that are explored
Configs ==
  {[frames |-> f, rows |-> d[1], columns |-> d[2]] :
     f \in (-1) .. MaxFrames, d \in Dims}

Init ==
  /\ args \in Configs
  /\ nthreads \in TeamSizes(args.rows, args.columns)
  /\ prev = <<>> /\ curr = <<>>
  /\ size = 0 /\ main_i = 0 /\ main_j = 0
  /\ pc = "start"
  /\ video = <<>> /\ emitGen = <<>> /\ transitions = 0
  /\ brain_i = [t \in Threads |-> 0]
  /\ wpc = [t \in Threads |-> "done"]
  /\ brain_j = 0 /\ brain_k = 0 /\ brain_l = 0 /\ brain_tot = 0
  /\ written = [t \in Threads |-> {}]
  /\ oob = FALSE
  /\ prevData = 0 /\ currData = 0
  /\ seeded = {}
  /\ argv = <<>> /\ errno = "NONE" /\ parsed = <<>>

\* lines 143-150: allocate both buffers, compute size, start the seeding loop
Alloc ==
  /\ pc = "start"
  /\ \E a \in Vec3b : prev' = Fresh(args.rows, args.columns, a, a)
  /\ \E a \in Vec3b : \E b \in {a, JUNK} :
       curr' = Fresh(args.rows, args.columns, a, b)
  /\ size' = SeedSize(args.rows, args.columns)
  /\ main_i' = CDiv(args.rows - size', 2)
  /\ prevData' = 1 /\ currData' = 2
  /\ pc' = "seed_i"
  /\ UNCHANGED <<main_j, video, emitGen, seeded>>
  /\ MainFrame

\* line 150: i < (rows + size) / 2, then line 151: j = (columns - size) / 2
SeedRow ==
  /\ pc = "seed_i"
  /\ main_i < CDiv(args.rows + size, 2)
  /\ main_j' = CDiv(args.columns - size, 2)
  /\ pc' = "seed_j"
  /\ UNCHANGED <<prev, curr, size, main_i, video, emitGen>>
  /\ UNCHANGED <<storageVars, seeded>>
  /\ MainFrame

\* lines 151-152: curr.at(i, j) = std::rand() & 1 ? ON : OFF; j += 1
SeedCell ==
  /\ pc = "seed_j"
  /\ main_j < CDiv(args.columns + size, 2)
  /\ \E v \in {ON, OFF} : curr' = AtPut(curr, main_i, main_j, v)
  /\ prev' = PrevAfterStore(curr')
  /\ seeded' = seeded \cup {<<main_i, main_j>>}
  /\ main_j' = main_j + 1
  /\ UNCHANGED <<storageVars, size, main_i, pc, video, emitGen>>
  /\ MainFrame

\* line 151 ends the row, line 150: i += 1
SeedRowEnd ==
  /\ pc = "seed_j"
  /\ ~(main_j < CDiv(args.columns + size, 2))
  /\ main_i' = main_i + 1
  /\ pc' = "seed_i"
  /\ UNCHANGED <<prev, curr, size, main_j, video, emitGen>>
  /\ UNCHANGED <<storageVars, seeded>>
  /\ MainFrame

\* line 150 ends the seeding, line 157: i = 0
SeedDone ==
  /\ pc = "seed_i"
  /\ ~(main_i < CDiv(args.rows + size, 2))
  /\ main_i' = 0
  /\ pc' = "loop"
  /\ UNCHANGED <<prev, curr, size, main_j, video, emitGen>>
  /\ UNCHANGED <<storageVars, seeded>>
  /\ MainFrame

\* the loop test with <= for <: one iteration too many
LoopCondInclusive(i, frames) == i <= frames

\* line 157: i < args.frames
LoopCond(i, frames) == i < frames

LoopTest ==
  /\ pc = "loop"
  /\ pc' = IF LoopCond(main_i, args.frames) THEN "emit" ELSE "done"
  /\ UNCHANGED <<prev, curr, size, main_i, main_j, video, emitGen>>
  /\ UNCHANGED <<storageVars, seeded>>
  /\ MainFrame

\* lines 159-161: video << curr
Emit ==
  /\ pc = "emit"
  /\ video' = Append(video, curr)
  /\ emitGen' = Append(emitGen, transitions)
  /\ pc' = "rotate"
  /\ UNCHANGED <<prev, curr, size, main_i, main_j>>
  /\ UNCHANGED <<storageVars, seeded>>
  /\ MainFrame

\* prev = curr instead of curr.copyTo(prev): the header is assigned and the
\* two buffers share one allocation
ShareData(dstData, srcData) == srcData

\* the allocation of the destination of src.copyTo(dst): create() keeps the
\* destination's own allocation, its size and type being those of the source
CopyToData(dstData, srcData) == dstData

\* line 163: curr.copyTo(prev)
Rotate ==
  /\ pc = "rotate"
  /\ prev' = curr
  /\ prevData' = CopyToData(prevData, currData)
  /\ pc' = "advance"
  /\ UNCHANGED <<curr, currData, seeded, size, main_i, main_j, video, emitGen>>
  /\ MainFrame

\* line 157: i += 1
LoopIncr ==
  /\ pc = "incr"
  /\ main_i' = main_i + 1
  /\ pc' = "loop"
  /\ UNCHANGED <<prev, curr, size, main_j, video, emitGen>>
  /\ UNCHANGED <<storageVars, seeded>>
  /\ MainFrame

Next ==
  \/ Alloc \/ SeedRow \/ SeedCell \/ SeedRowEnd \/ SeedDone
  \/ LoopTest \/ Emit \/ Rotate \/ LoopIncr
  \/ BrainFork \/ BrainStep \/ BrainJoin

Spec == Init /\ [][Next]_vars

\* the steps of the main thread
Driver ==
  \/ Alloc \/ SeedRow \/ SeedCell \/ SeedRowEnd \/ SeedDone
  \/ LoopTest \/ Emit \/ Rotate \/ LoopIncr
  \/ BrainFork \/ BrainJoin

\* the steps of thread t of the team
Worker(t) ==
  /\ t \in Threads
  /\ \/ JInit(t) \/ JTest(t) \/ IfOn(t) \/ SetDying(t) \/ IfDying(t)
     \/ SetOff(t) \/ TotInit(t) \/ KInit(t) \/ KTest(t) \/ RowChk(t)
     \/ LInit(t) \/ LTest(t) \/ ColChk(t) \/ NbOn(t) \/ TotInc(t)
     \/ LInc(t) \/ KInc(t) \/ SetRule(t) \/ JInc(t) \/ IInc(t)

\* the program under a scheduler that lets the main thread and every thread
\* of a team run again and again while it has a step to take
FairSpec ==
  /\ Init /\ [][Next]_vars
  /\ WF_vars(Driver)
  /\ \A t \in 0 .. MaxThreads - 1 : WF_vars(Worker(t))

\* ------------------------------------- the seeding on its own, more sizes
SeedInit ==
  /\ \E r, c \in 0 .. MaxSeedDim : args = [frames |-> 0, rows |-> r, columns |-> c]
  /\ nthreads = 1
  /\ prev = <<>> /\ curr = <<>>
  /\ size = 0 /\ main_i = 0 /\ main_j = 0
  /\ pc = "start"
  /\ video = <<>> /\ emitGen = <<>> /\ transitions = 0
  /\ brain_i = [t \in Threads |-> 0]
  /\ wpc = [t \in Threads |-> "done"]
  /\ brain_j = 0 /\ brain_k = 0 /\ brain_l = 0 /\ brain_tot = 0
  /\ written = [t \in Threads |-> {}]
  /\ oob = FALSE
  /\ prevData = 0 /\ currData = 0
  /\ seeded = {}
  /\ argv = <<>> /\ errno = "NONE" /\ parsed = <<>>

SeedNext == Alloc \/ SeedRow \/ SeedCell \/ SeedRowEnd \/ SeedDone

SpecSeed == SeedInit /\ [][SeedNext]_vars

\* -------------------------------------------------------------- parse_opt
\* lines 31-34: the defaults
DEFAULT_FRAME_COUNT == 1800
DEFAULT_COLUMNS == 1280
DEFAULT_ROWS == 720

\* <limits.h>: the largest unsigned short
USHRT_MAX == 65535

\* an unsigned long is 64 bits, held as four 16-bit limbs, lowest first
Limb == 65536

ULZero == <<0, 0, 0, 0>>

\* ULONG_MAX
ULMax == <<Limb - 1, Limb - 1, Limb - 1, Limb - 1>>

\* v * 10 + d in 64 bits, and whether the exact result needs more
MulAdd10(v, d) ==
  LET t1 == v[1] * 10 + d
      t2 == v[2] * 10 + (t1 \div Limb)
      t3 == v[3] * 10 + (t2 \div Limb)
      t4 == v[4] * 10 + (t3 \div Limb)
  IN [value |-> <<t1 % Limb, t2 % Limb, t3 % Limb, t4 % Limb>>,
      carry |-> (t4 \div Limb) > 0]

\* -v in 64 bits
Negate(v) ==
  LET t1 == (Limb - 1 - v[1]) + 1
      t2 == (Limb - 1 - v[2]) + (t1 \div Limb)
      t3 == (Limb - 1 - v[3]) + (t2 \div Limb)
      t4 == (Limb - 1 - v[4]) + (t3 \div Limb)
  IN <<t1 % Limb, t2 % Limb, t3 % Limb, t4 % Limb>>

\* v >= n for an n below 2^16
ULGeq(v, n) == v[2] > 0 \/ v[3] > 0 \/ v[4] > 0 \/ v[1] >= n

\* v > n for an n below 2^16
ULGt(v, n) == v[2] > 0 \/ v[3] > 0 \/ v[4] > 0 \/ v[1] > n

\* the int an unsigned long converts to: its low 32 bits, two's complement
ToInt(v) ==
  IF v[2] < Limb \div 2 THEN v[2] * Limb + v[1]
  ELSE (v[2] - Limb) * Limb + v[1]

DigitChars == <<"0", "1", "2", "3", "4", "5", "6", "7", "8", "9">>

IsDigit(c) == \E n \in 1 .. 10 : DigitChars[n] = c

DigitVal(c) == (CHOOSE n \in 1 .. 10 : DigitChars[n] = c) - 1

IsSpace(c) == c \in {" ", "\t"}

RECURSIVE SkipSpace(_)
SkipSpace(str) ==
  IF str # <<>> /\ IsSpace(Head(str)) THEN SkipSpace(Tail(str)) ELSE str

\* the digits at the front of str accumulated onto v
RECURSIVE Accumulate(_, _, _, _)
Accumulate(str, v, any, overflow) ==
  IF str = <<>> \/ ~IsDigit(Head(str))
  THEN [value |-> v, any |-> any, overflow |-> overflow]
  ELSE LET r == MulAdd10(v, DigitVal(Head(str)))
       IN Accumulate(Tail(str), r.value, TRUE, overflow \/ r.carry)

\* line 253: strtoul(arg, &endptr, 10): white space, an optional sign, then
\* digits up to the first other character.  No digits gives 0; a value that
\* does not fit gives ULONG_MAX and a range error; a minus sign negates
StrToUL(str) ==
  LET t == SkipSpace(str)
      signed == t # <<>> /\ Head(t) \in {"+", "-"}
      a == Accumulate(IF signed THEN Tail(t) ELSE t, ULZero, FALSE, FALSE)
  IN [value |-> IF ~a.any THEN ULZero
                ELSE IF a.overflow THEN ULMax
                ELSE IF signed /\ Head(t) = "-" THEN Negate(a.value)
                ELSE a.value,
      noconv |-> ~a.any,
      range |-> a.any /\ a.overflow]

\* errno after strtoul: ERANGE on a range error; when there were no digits
\* the C library may set EINVAL or leave errno alone; otherwise untouched
ErrnoAfter(r) ==
  IF r.range THEN {"ERANGE"}
  ELSE IF r.noconv THEN {errno, "EINVAL"}
  ELSE {errno}

\* the test with > for >=: USHRT_MAX itself accepted
TooManyStrict(value) == ULGt(value, USHRT_MAX)

\* lines 265 and 270: value >= USHRT_MAX
TooMany(value) == ULGeq(value, USHRT_MAX)

\* lines 256-274: the message of the argp_failure the call ends in, "" if none
Failure(key, value, e) ==
  IF e = "EINVAL" THEN "given base contains unsupported value"
  ELSE IF e = "ERANGE" THEN "resulting value was out of range"
  ELSE IF key = "c" /\ TooMany(value) THEN "too many columns"
  ELSE IF key = "r" /\ TooMany(value) THEN "too many rows"
  ELSE ""

\* lines 263, 268, 273: the field of the key set to the value, as an int
Store(a, key, value) ==
  IF key = "f" THEN [a EXCEPT !.frames = ToInt(value)]
  ELSE IF key = "c" THEN [a EXCEPT !.columns = ToInt(value)]
  ELSE [a EXCEPT !.rows = ToInt(value)]

\* lines 246-280: parse_opt for the next option -f, -c or -r of the command
\* line; argp_failure with status 1 ends the process
ParseOpt ==
  /\ pc = "parse" /\ argv # <<>>
  /\ LET key == Head(argv)[1]
         r == StrToUL(Head(argv)[2])
     IN \E e \in ErrnoAfter(r) :
          LET msg == Failure(key, r.value, e)
          IN /\ errno' = e
             /\ parsed' = Append(parsed, [key |-> key, arg |-> Head(argv)[2],
                                          before |-> args, msg |-> msg])
             /\ IF msg # ""
                THEN pc' = "exit" /\ args' = args
                ELSE pc' = pc /\ args' = Store(args, key, r.value)
  /\ argv' = Tail(argv)
  /\ UNCHANGED <<nthreads, prev, curr, storageVars, seeded, size, main_i,
                 main_j, video, emitGen, transitions, brain_i, brain_j, brain_k,
                 brain_l, brain_tot, wpc, written, oob>>

\* line 134: argp_parse returns, main goes on to open the sink
ParseDone ==
  /\ pc = "parse" /\ argv = <<>>
  /\ pc' = "start"
  /\ UNCHANGED <<args, parseVars, nthreads, prev, curr, storageVars, seeded,
                 size, main_i, main_j, video, emitGen, transitions, brain_i,
                 brain_j, brain_k, brain_l, brain_tot, wpc, written, oob>>

\* the option arguments explored
ArgStrings ==
  {<<"0">>, <<"2">>, <<"+", "3">>, <<" ", "7">>,
   <<"6", "5", "5", "3", "4">>, <<"6", "5", "5", "3", "5">>,
   <<"6", "5", "5", "3", "6">>,
   <<"2", "1", "4", "7", "4", "8", "3", "6", "4", "7">>,
   <<"2", "1", "4", "7", "4", "8", "3", "6", "4", "8">>,
   <<"4", "2", "9", "4", "9", "6", "7", "2", "9", "6">>,
   <<"1", "8", "4", "4", "6", "7", "4", "4", "0", "7", "3", "7", "0", "9",
     "5", "5", "1", "6", "1", "5">>,
   <<"1", "8", "4", "4", "6", "7", "4", "4", "0", "7", "3", "7", "0", "9",
     "5", "5", "1", "6", "1", "6">>,
   <<"-", "1">>, <<"a", "b", "c">>, <<"1", "2", "a", "b", "c">>, <<>>}

Options == {"f", "c", "r"} \X ArgStrings

\* the command lines explored: up to MaxOpts options
CommandLines == UNION {[1 .. n -> Options] : n \in 0 .. MaxOpts}

\* lines 128-134: the defaults are set and argp_parse starts
ArgsInit ==
  /\ args = [frames |-> DEFAULT_FRAME_COUNT, columns |-> DEFAULT_COLUMNS,
             rows |-> DEFAULT_ROWS]
  /\ argv \in CommandLines
  /\ errno = "NONE" /\ parsed = <<>>
  /\ pc = "parse"
  /\ nthreads = 1
  /\ prev = <<>> /\ curr = <<>>
  /\ size = 0 /\ main_i = 0 /\ main_j = 0
  /\ video = <<>> /\ emitGen = <<>> /\ transitions = 0
  /\ brain_i = [t \in Threads |-> 0]
  /\ wpc = [t \in Threads |-> "done"]
  /\ brain_j = 0 /\ brain_k = 0 /\ brain_l = 0 /\ brain_tot = 0
  /\ written = [t \in Threads |-> {}]
  /\ oob = FALSE
  /\ prevData = 0 /\ currData = 0
  /\ seeded = {}

ArgsNext == ParseOpt \/ ParseDone

SpecArgs == ArgsInit /\ [][ArgsNext]_vars

\* ------------------------------------------------- reference definitions
\* the offsets scanned by lines 196 and 198
Offsets == {<<k, l>> : k \in (-1) .. 1, l \in (-1) .. 1}

\* lines 196-201 run without interference: the total for the cell (r, c) of M
Tot(M, r, c) ==
  Cardinality({o \in Offsets :
                 /\ InGrid(r + o[1], c + o[2])
                 /\ M[Idx(r + o[1], c + o[2])] = ON})

\* lines 188-205 run by one thread: every cell from the input alone
BrainSeq(M) ==
  [n \in DOMAIN M |->
     LET r == n \div args.columns
         c == n % args.columns
     IN IF M[n] = ON THEN DYING
        ELSE IF M[n] = DYING THEN OFF
        ELSE Rule(Tot(M, r, c))]

\* the Moore neighbours of (r, c) inside the grid
Neighbours(r, c) ==
  {p \in {<<r + o[1], c + o[2]>> : o \in Offsets \ {<<0, 0>>}} : InGrid(p[1], p[2])}

\* number of ALIVE cells among the in-bounds Moore neighbours of (r, c) in M
AliveNeighbours(M, r, c) ==
  Cardinality({p \in Neighbours(r, c) : M[Idx(p[1], p[2])] = ON})

Coords == {<<r, c>> : r \in 0 .. (args.rows - 1), c \in 0 .. (args.columns - 1)}

AllCells == Cells(args.rows, args.columns)

\* brain(prev, curr) has just returned
AfterBrain == pc = "incr"

States == {ON, DYING, OFF}

\* ------------------------------------------------------------------ claims

\* C1: after brain(in, out), every cell that is OFF in the input is ALIVE in
\* the output if exactly 2 of its in-bounds Moore neighbours are ALIVE in the
\* input, and OFF otherwise.
C1_OffCellRule ==
  AfterBrain =>
    \A p \in Coords :
      prev[Idx(p[1], p[2])] = OFF =>
        curr[Idx(p[1], p[2])] =
          (IF AliveNeighbours(prev, p[1], p[2]) = 2 THEN ON ELSE OFF)

\* C2: the threads of the parallel-for write disjoint sets of cells and the
\* completed output grid equals the grid of the sequential evaluation.
C2_ParallelEqualsSequential ==
  AfterBrain =>
    /\ \A t, u \in Threads : t # u => written[t] \cap written[u] = {}
    /\ curr = BrainSeq(prev)

\* C3: after brain(in, out), every cell that is ALIVE in the input is DYING
\* in the output.
C3_AliveBecomesDying ==
  AfterBrain => \A n \in AllCells : prev[n] = ON => curr[n] = DYING

\* C4: after brain(in, out), every cell that is DYING in the input is OFF in
\* the output.
C4_DyingBecomesOff ==
  AfterBrain => \A n \in AllCells : prev[n] = DYING => curr[n] = OFF

\* the most neighbours a cell can have inside the grid: 3 at a corner, 5 on
\* an edge, 8 inside (fewer on a grid with a single row or column)
IsCorner(r, c) == r \in {0, args.rows - 1} /\ c \in {0, args.columns - 1}

IsEdge(r, c) == r \in {0, args.rows - 1} \/ c \in {0, args.columns - 1}

MaxCount(r, c) == IF IsCorner(r, c) THEN 3 ELSE IF IsEdge(r, c) THEN 5 ELSE 8

C6_OutputDependsOnInputOnly ==
  AfterBrain =>
    /\ UNION {written[t] : t \in Threads} = AllCells
    /\ \A n \in AllCells : curr[n] = BrainSeq(prev)[n]

\* C7 witness: a run with frame count 2 has ended after 2 frames and 2
\* transitions
C7_Witness ==
  pc = "done" /\ args.frames = 2 /\ Len(video) = 2 /\ transitions = 2

\* C7: a run with frame count N >= 0 ends with exactly N frames written to
\* the sink and exactly N transitions computed (none of either for N = 0),
\* and the generation computed by the last transition is not among the
\* frames written.
C7_FrameCount ==
  (pc = "done" /\ args.frames >= 0) =>
    /\ Len(video) = args.frames
    /\ transitions = args.frames
    /\ \A k \in 1 .. Len(emitGen) : emitGen[k] < transitions

\* the grid after k sequential transitions of M
RECURSIVE Iter(_, _)
Iter(M, k) == IF k = 0 THEN M ELSE BrainSeq(Iter(M, k - 1))

\* C8: each iteration emits, then rotates, then advances, so the k-th frame
\* written (from 0) follows exactly k transitions and is generation 0 with
\* the transition applied k times.
C8_FrameKIsGenerationK ==
  \A k \in 1 .. Len(video) :
    /\ emitGen[k] = k - 1
    /\ video[k] = Iter(video[1], k - 1)

\* the centred seeding square of lines 150-151
InSquare(r, c) ==
  LET s == SeedSize(args.rows, args.columns)
  IN /\ CDiv(args.rows - s, 2) <= r /\ r < CDiv(args.rows + s, 2)
     /\ CDiv(args.columns - s, 2) <= c /\ c < CDiv(args.columns + s, 2)

\* C9: seeding starts from an all-OFF grid, and in generation 0 as written
\* to the sink by the first EMIT every cell outside the seeding square is
\* OFF.
C9_OutsideSquareOff ==
  /\ (pc \in {"seed_i", "seed_j"}) =>
       \A p \in Coords : ~InSquare(p[1], p[2]) => curr[Idx(p[1], p[2])] = OFF
  /\ Len(video) >= 1 =>
       \A p \in Coords : ~InSquare(p[1], p[2]) => video[1][Idx(p[1], p[2])] = OFF

\* C10: from the end of INIT to DONE every cell of prev and of curr is one
\* of ALIVE, DYING and OFF, and so is every cell of every frame written.
C10_CellsAreStates ==
  /\ pc # "start" =>
       \A n \in AllCells : prev[n] \in States /\ curr[n] \in States
  /\ \A k \in 1 .. Len(video) : \A n \in AllCells : video[k][n] \in States

C12_NoPartialFrame ==
  (pc \in {"emit", "rotate"}) =>
    /\ \A t \in Threads : wpc[t] = "done"
    /\ transitions >= 1 => UNION {written[t] : t \in Threads} = AllCells

\* every cell of M is v
AllAre(M, v) == \A n \in DOMAIN M : M[n] = v

\* C13: one transition takes an all-ALIVE grid to all-DYING, an all-DYING
\* grid to all-OFF, and an all-OFF grid to all-OFF (the fixed point).
C13_DecayThenFixedPoint ==
  AfterBrain =>
    /\ AllAre(prev, ON) => AllAre(curr, DYING)
    /\ AllAre(prev, DYING) => AllAre(curr, OFF)
    /\ AllAre(prev, OFF) => AllAre(curr, OFF)

\* C17: when brain applies the rule to a cell, the total it has computed is
\* the number of ALIVE cells among the cell's in-bounds neighbours, the cell
\* itself not counted.
C17_CountExcludesSelf ==
  \A t \in Threads :
    (pc = "brain" /\ wpc[t] = "set_rule" /\ InGrid(brain_i[t], brain_j)) =>
      brain_tot = AliveNeighbours(prev, brain_i[t], brain_j)

\* C20: whatever the buffers held at allocation, from the end of the first
\* ADVANCE on every cell of curr is one of ALIVE, DYING and OFF.
C20_CurrValidAfterAdvance ==
  transitions >= 1 => \A n \in AllCells : curr[n] \in States

\* floor(min(rows, columns) * 0.4)
SquareSide == (Min(args.rows, args.columns) * 4) \div 10

\* the cells (i, j) with (rows-s)/2 <= i < (rows+s)/2 and
\* (columns-s)/2 <= j < (columns+s)/2
Square ==
  {p \in Coords :
     /\ (args.rows - SquareSide) \div 2 <= p[1]
     /\ p[1] < (args.rows + SquareSide) \div 2
     /\ (args.columns - SquareSide) \div 2 <= p[2]
     /\ p[2] < (args.columns + SquareSide) \div 2}

\* C16 witness: the seeding of a non-square grid has ended with a square of
\* side 2 written
C16_Witness ==
  /\ pc = "loop" /\ args.rows # args.columns
  /\ SquareSide = 2 /\ Cardinality(seeded) = 4

\* C16: the seeder writes only cells inside the grid, each ALIVE or OFF, and
\* when it has finished it has written exactly the cells of the centred
\* square, s rows by s columns with s = floor(min(rows, columns) * 0.4).
C16_SeededSquare ==
  /\ \A p \in seeded : InGrid(p[1], p[2])
  /\ (pc \in {"seed_i", "seed_j", "loop"}) =>
       \A p \in seeded : curr[Idx(p[1], p[2])] \in {ON, OFF}
  /\ pc = "loop" =>
       /\ seeded = Square
       /\ Cardinality(seeded) = SquareSide * SquareSide
       /\ SquareSide > 0 =>
            /\ Cardinality({p[1] : p \in seeded}) = SquareSide
            /\ Cardinality({p[2] : p \in seeded}) = SquareSide

\* ------------------------------------------------ claims about parse_opt
\* the configuration after the n-th call of parse_opt
ArgsAfter(n) == IF n < Len(parsed) THEN parsed[n + 1].before ELSE args

\* the n-th call of parse_opt ended the process
Fatal(n) == parsed[n].msg # "" /\ n = Len(parsed) /\ pc = "exit"

Str65534 == <<"6", "5", "5", "3", "4">>

Str65535 == <<"6", "5", "5", "3", "5">>

\* C14 witness: 65534 rows were accepted and 65535 columns then rejected
C14_Witness ==
  /\ pc = "exit" /\ Len(parsed) = 2
  /\ parsed[1].key = "r" /\ parsed[1].arg = Str65534
  /\ parsed[2].key = "c" /\ parsed[2].arg = Str65535

\* C14: a columns or rows value of 65535 ends the process with "too many
\* columns" or "too many rows" and the dimension keeps its value; a value of
\* 65534 is accepted and becomes the dimension.
C14_DimensionBoundary ==
  \A n \in 1 .. Len(parsed) :
    LET e == parsed[n] IN
      /\ (e.key \in {"c", "r"} /\ e.arg = Str65535) =>
           /\ e.msg = (IF e.key = "c" THEN "too many columns"
                       ELSE "too many rows")
           /\ Fatal(n)
           /\ ArgsAfter(n) = e.before
      /\ (e.key \in {"c", "r"} /\ e.arg = Str65534) =>
           /\ e.msg = ""
           /\ ArgsAfter(n) = Store(e.before, e.key, <<USHRT_MAX - 1, 0, 0, 0>>)
           /\ (IF e.key = "c" THEN ArgsAfter(n).columns
               ELSE ArgsAfter(n).rows) = USHRT_MAX - 1

\* an unsigned decimal numeral: one digit or more and nothing else
IsNumeral(str) == str # <<>> /\ \A n \in 1 .. Len(str) : IsDigit(str[n])

\* the numeral stands for a number that an unsigned long holds
FitsUL(str) == ~Accumulate(str, ULZero, FALSE, FALSE).overflow

\* the number an unsigned long holds, for a numeral that fits
ULOf(str) == Accumulate(str, ULZero, FALSE, FALSE).value

\* a value the validation is to refuse: not a numeral, or outside what the
\* option takes
BadValue(key, str) ==
  \/ ~IsNumeral(str)
  \/ ~FitsUL(str)
  \/ key \in {"c", "r"} /\ ULGeq(ULOf(str), USHRT_MAX)

\* C15: every value that is not a numeral or is out of range ends the
\* process in the parse_opt call that receives it, and the configuration
\* keeps the value it had; so main never gets past argp_parse with one.
C15_BadValueIsFatal ==
  \A n \in 1 .. Len(parsed) :
    BadValue(parsed[n].key, parsed[n].arg) =>
      Fatal(n) /\ ArgsAfter(n) = parsed[n].before

\* the unsigned long of a non-negative int
ULOfInt(x) == <<x % Limb, x \div Limb, 0, 0>>

\* C19: every numeral N that parse_opt accepts for -f is stored unchanged:
\* args.frames is N, the number of iterations the driver loop then runs.
C19_FramesStoredUnchanged ==
  \A n \in 1 .. Len(parsed) :
    LET e == parsed[n] IN
      (e.key = "f" /\ IsNumeral(e.arg) /\ e.msg = "") =>
        /\ ArgsAfter(n).frames >= 0
        /\ ULOfInt(ArgsAfter(n).frames) = ULOf(e.arg)

\* ------------------------------------------------------------ termination
\* C18 witness: a run of MaxFrames frames with a team of two threads in each
\* transition has reached its end
C18_Witness ==
  /\ pc = "done" /\ nthreads > 1
  /\ args.frames = MaxFrames /\ transitions = MaxFrames

\* C18: under fair scheduling of the main thread and of the threads of each
\* team, a run with a frame count N >= 0 reaches its end, having gone N times
\* through the loop: no step of brain or of the driver waits for ever.
C18_Terminates ==
  (args.frames >= 0) =>
    <>(pc = "done" /\ main_i = args.frames /\ transitions = args.frames)

====
